---- MODULE Spec2Model ----
(***************************************************************************)
(* SolanaClient (src/src/index.ts): the two transaction builders, the      *)
(* one-shot checkSignatureAndSubmit, the grind loop                        *)
(* createUntilLogicMatches, getTokenBalance, the wallet functions and      *)
(* setNetwork, run by one caller against a ledger gateway whose every call *)
(* may return or fail.  Each action is the code between two suspension     *)
(* points (await) of the running operation, or a synchronous call.         *)
(***************************************************************************)
EXTENDS Integers, Sequences, FiniteSets, TLC

\* ------------------------------------------------------------------ bounds
MaxBudget == 2          \* largest maxAttempts the caller passes
MaxBlockhash == 2       \* blockhashes the ledger can report: 1..MaxBlockhash
MaxFaults == 2          \* gateway failures explored in a run of LongDelayEvery attempts
MaxSwitches == 1        \* setNetwork calls made while an operation runs
KeyLen == 1             \* bytes of a seed and of a public key (32 in ed25519)

\* --------------------------------------------------------- program constants
ShortDelayMs == 10
LongDelayMs == 500
ErrorDelayMs == 1000
LongDelayEvery == 10
USDC_DECIMALS == 6

\* ------------------------------------------------------------ value domains
Null == [kind |-> "null"]
Undefined == [kind |-> "undefined"]

ValidRecipient == "83astBRguLMdt2h5U1Tpdq5tjFoJ6noeGwaY3mDLVcri"
MalformedRecipient == "not-a-base58-address"
RecipientAddresses == {ValidRecipient, MalformedRecipient}
Lamports == 100000

GatewayErrors == {"NetworkUnavailable"}
BroadcastErrors == {"SubmissionRejected", "NetworkUnavailable"}
Blockhashes == 1..MaxBlockhash

\* the sender identity (WalletInfo): one fixed keypair
Wallet == [publicKey |-> "SenderPubkey", secretKey |-> "b58:SenderSecret",
           keypair |-> [publicKey |-> "SenderPubkey", secretKey |-> "SenderSecret"]]

\* new PublicKey(address) throws on a string that is not a 32-byte base-58 key
IsWellFormedAddress_unchecked(address) == TRUE
IsWellFormedAddress(address) == address = ValidRecipient
PublicKey(address) == [key |-> address]

VARIABLES
    op,             \* what the caller runs: "grind" | "oneshot" | "balance" | "wallet"
    client,         \* which SolanaClient class serves it: "index" | "part_000"
    recipientAddress, isToken, maxAttempts, \* the caller's arguments
    logicAccepts,   \* the caller's predicate: the signatures it accepts, as digests
    latest,         \* the ledger's current blockhash
    pc,             \* where the running operation is suspended
    attempts, txData, shouldSubmit,         \* locals of createUntilLogicMatches
    transaction,    \* the Transaction under construction in a builder
    trace,          \* everything the operation did so far, in order
    result,         \* what the operation gave its caller
    network, connection,    \* the fields of SolanaClient
    mintPublicKey,  \* local of createAndSignTokenTransaction / getTokenBalance
    calls,          \* the client's constructor, setNetwork and gateway calls, in order
    cancelRequested,        \* the caller no longer wants the running grind
    seed,           \* the randomness Keypair.generate() draws
    created, loaded \* the WalletInfo createWallet / loadWalletFromSecretKey returned

vars == <<op, client, recipientAddress, isToken, maxAttempts, logicAccepts, latest,
          pc, attempts, txData, shouldSubmit, transaction, trace, result,
          network, connection, mintPublicKey, calls, cancelRequested,
          seed, created, loaded>>

args == <<op, client, recipientAddress, isToken, maxAttempts, logicAccepts, seed>>

\* what the builders, the grind loop and the one-shot path never assign
others == <<network, connection, cancelRequested, created, loaded>>

\* ------------------------------------------------------ transaction pipeline
\* the message a signature covers
Message(tx) ==
    [instructions |-> tx.instructions, recentBlockhash |-> tx.recentBlockhash,
     feePayer |-> tx.feePayer]

\* transaction.sign(keypair): ed25519 is deterministic in (key, message)
Sign_randomized(keypair, tx) ==
    [signer |-> keypair.publicKey, message |-> Message(tx), nonce |-> attempts]
Sign(keypair, tx) == [signer |-> keypair.publicKey, message |-> Message(tx)]

\* bs58.encode
Bs58Encode(bytes) == [b58 |-> bytes]

\* transaction.serialize(): the signature followed by the message
Serialize_unsigned(tx, sig) == [wire |-> <<Null, Message(tx)>>]
Serialize(tx, sig) == [wire |-> <<sig, Message(tx)>>]

\* SystemProgram.transfer({fromPubkey, toPubkey, lamports})
TransferInstruction(from, to, lamports) ==
    [program |-> "system", kind |-> "transfer", from |-> from, to |-> to,
     amount |-> lamports]

\* lines 126-139 / 263-276: blockhash, fee payer, sign, encode, serialize
SignAndSerialize_firstBlockhash(tx, blockhash) ==
    LET full == [tx EXCEPT !.recentBlockhash = 1,
                           !.feePayer = Wallet.keypair.publicKey]
        sig  == Sign(Wallet.keypair, full)
    IN  [transaction |-> Serialize(full, sig),
         signature |-> Bs58Encode(sig),
         rawTransaction |-> [full EXCEPT !.signature = sig]]
SignAndSerialize(tx, blockhash) ==
    LET full == [tx EXCEPT !.recentBlockhash = blockhash,
                           !.feePayer = Wallet.keypair.publicKey]
        sig  == Sign(Wallet.keypair, full)
    IN  [transaction |-> Serialize(full, sig),
         signature |-> Bs58Encode(sig),
         rawTransaction |-> [full EXCEPT !.signature = sig]]

\* the node answers sendRawTransaction with the first signature of the wire bytes
BroadcastReply(bytes) == Bs58Encode(bytes.wire[1])

\* what tells apart the signatures one invocation can produce (one signer, one
\* recipient, one amount): the blockhash and the instruction list of the message
Digest(signature) ==
    <<signature.b58.message.recentBlockhash, Len(signature.b58.message.instructions)>>

\* the signatures the builds of one invocation can produce: a native transfer has
\* one instruction, a token transfer one or two
Digests == Blockhashes \X (IF isToken THEN {1, 2} ELSE {1})

\* the caller's logicFunction applied to a base-58 signature
logicFunction(signature) == Digest(signature) \in logicAccepts

\* ----------------------------------------------------------------- identity
\* the base-58 alphabet of bs58
Alphabet ==
    <<"1", "2", "3", "4", "5", "6", "7", "8", "9", "A", "B", "C", "D", "E", "F", "G",
      "H", "J", "K", "L", "M", "N", "P", "Q", "R", "S", "T", "U", "V", "W", "X", "Y",
      "Z", "a", "b", "c", "d", "e", "f", "g", "h", "i", "j", "k", "m", "n", "o", "p",
      "q", "r", "s", "t", "u", "v", "w", "x", "y", "z">>
Base == Len(Alphabet)
DigitOf(char) == (CHOOSE i \in DOMAIN Alphabet : Alphabet[i] = char) - 1

RECURSIVE LeadingCount(_, _)
LeadingCount(seq, x) ==
    IF seq = <<>> \/ Head(seq) # x THEN 0 ELSE 1 + LeadingCount(Tail(seq), x)

Repeat(x, n) == [i \in 1..n |-> x]
DropFirst(seq, n) == SubSeq(seq, n + 1, Len(seq))

\* base-x: digits (least significant first, radix `to`) := digits * from + carry
RECURSIVE MulAdd(_, _, _, _)
MulAdd(digits, carry, from, to) ==
    IF digits = <<>>
    THEN IF carry = 0 THEN <<>> ELSE <<carry % to>> \o MulAdd(<<>>, carry \div to, from, to)
    ELSE LET v == Head(digits) * from + carry
         IN  <<v % to>> \o MulAdd(Tail(digits), v \div to, from, to)

\* base-x: the number written by `source` (most significant first, radix `from`)
\* rewritten in radix `to`, least significant digit first
RECURSIVE Convert(_, _, _, _)
Convert(source, digits, from, to) ==
    IF source = <<>> THEN digits
    ELSE Convert(Tail(source), MulAdd(digits, Head(source), from, to), from, to)

Reverse(seq) == [i \in 1..Len(seq) |-> seq[Len(seq) + 1 - i]]

\* bs58.encode on bytes: one "1" per leading zero byte, then the base-58 digits
bs58_encode_noLeadingZeros(bytes) ==
    LET zeros == LeadingCount(bytes, 0)
        digits == Reverse(Convert(DropFirst(bytes, zeros), <<>>, 256, Base))
    IN  [i \in 1..Len(digits) |-> Alphabet[digits[i] + 1]]
bs58_encode(bytes) ==
    LET zeros == LeadingCount(bytes, 0)
        digits == Reverse(Convert(DropFirst(bytes, zeros), <<>>, 256, Base))
    IN  Repeat("1", zeros) \o [i \in 1..Len(digits) |-> Alphabet[digits[i] + 1]]

\* bs58.decode: one zero byte per leading "1", then the bytes of the number
bs58_decode(text) ==
    LET ones == LeadingCount(text, "1")
        rest == DropFirst(text, ones)
        digits == [i \in 1..Len(rest) |-> DigitOf(rest[i])]
    IN  Repeat(0, ones) \o Reverse(Convert(digits, <<>>, Base, 256))

\* the seeds Keypair.generate() may draw
SeedBytes == {0, 1, 57, 58, 255}
Seeds == [1..KeyLen -> SeedBytes]

\* ed25519 public key of a seed: a fixed function of the seed
DerivePublicKey(s) == [i \in 1..Len(s) |-> (s[i] * 7 + 3 * i) % 256]

\* Keypair.generate(): secretKey is the seed followed by the public key
KeypairOf(s) == [publicKey |-> DerivePublicKey(s), secretKey |-> s \o DerivePublicKey(s)]

\* Keypair.fromSecretKey(bytes) accepts 2 * KeyLen bytes whose second half is the
\* public key of the first
ValidSecretKey(bytes) ==
    /\ Len(bytes) = 2 * KeyLen
    /\ SubSeq(bytes, KeyLen + 1, 2 * KeyLen) = DerivePublicKey(SubSeq(bytes, 1, KeyLen))

\* ------------------------------------------------------------------ network
\* NetworkType (line 20) and clusterApiUrl of @solana/web3.js
NetworkType == {"mainnet-beta", "testnet", "devnet"}
clusterApiUrl(n) ==
    IF n = "mainnet-beta" THEN "https://api.mainnet-beta.solana.com"
    ELSE IF n = "testnet" THEN "https://api.testnet.solana.com"
    ELSE "https://api.devnet.solana.com"

\* new Connection(clusterApiUrl(network), 'confirmed')
Connection(n) == [endpoint |-> clusterApiUrl(n), commitment |-> "confirmed"]

\* USDC_MINT (lines 37-41) and getUsdcMint (194-196)
USDC_MINT ==
    [n \in {"mainnet-beta", "testnet", "devnet"} |->
        IF n = "mainnet-beta" THEN "EPjFWdd5AufqSSqeM2qN1xzybapC8G4wEGGkZwyTDt1v"
                              ELSE "4zMMC9srt5Ri5X14GAgXhaHii3GnPAEERYPJgZJDncDU"]
getUsdcMint == USDC_MINT[network]

\* ------------------------------------------------------------ trace helpers
Log(event) == Append(trace, event)
Log2(e1, e2) == Append(Append(trace, e1), e2)
Events(kind) == {i \in DOMAIN trace : trace[i].kind = kind}
Count(kind) == Cardinality(Events(kind))
Call(entry) == Append(calls, entry)
Calls(call) == {i \in DOMAIN calls : calls[i].call = call}

\* a gateway call may fail at any time; in the long run of LongDelayEvery attempts
\* only the first MaxFaults failures are explored
MayFail == maxAttempts <= MaxBudget \/ Count("threw") + Count("sendFailed") < MaxFaults

\* --------------------------------------------------------------------- Init
Init ==
    /\ op \in {"grind", "oneshot", "balance", "wallet"}
    /\ client \in {"index", "part_000"}
    /\ op = "grind" => client = "index"
    /\ recipientAddress \in RecipientAddresses
    /\ isToken \in BOOLEAN
    /\ client = "part_000" => ~isToken
    /\ maxAttempts \in 0..MaxBudget \cup {LongDelayEvery}
    /\ op # "grind" => maxAttempts = 0
    /\ logicAccepts \in SUBSET Digests
    /\ maxAttempts > MaxBudget => ~isToken /\ logicAccepts = {}
    /\ latest = 1
    /\ pc = CASE op = "grind" -> "while"
               [] op = "oneshot" -> "build"
               [] op = "balance" -> "getTokenBalance"
               [] op = "wallet" -> "createWallet"
    /\ attempts = 0
    /\ txData = Undefined
    /\ shouldSubmit = FALSE
    /\ transaction = Undefined
    /\ trace = <<>>
    /\ result = Undefined
    /\ network \in {"devnet", "mainnet-beta"}
    /\ connection = Connection(network)
    /\ op \in {"balance", "wallet"} => client = "index" /\ ~isToken /\ logicAccepts = {}
    /\ op = "wallet" => recipientAddress = ValidRecipient
    /\ op \in {"wallet", "grind"} => network = "devnet"
    /\ mintPublicKey = Undefined
    /\ calls = <<[call |-> "constructor", network |-> network]>>
    /\ cancelRequested = FALSE
    /\ seed \in Seeds
    /\ op # "wallet" => seed = [i \in 1..KeyLen |-> 0]
    /\ created = Undefined
    /\ loaded = Undefined

\* ------------------------------------------------- createUntilLogicMatches
\* line 336: the loop condition
LoopGuard_offByOne(a, max) == a <= max
LoopGuard(a, max) == a < max

\* line 350: shouldSubmit = logicFunction(txData.signature)
ShouldSubmit_sticky(td) == shouldSubmit \/ logicFunction(td.signature)
ShouldSubmit(td) == logicFunction(td.signature)

\* lines 372-376: the catch block of the loop body: log, then the 1s delay
CatchBlock_exits(error, event) ==
    /\ pc' = "done"
    /\ attempts' = attempts
    /\ trace' = Log(event)
CatchBlock_sameAttempt(error, event) ==
    /\ pc' = "delay1000"
    /\ attempts' = attempts - 1
    /\ trace' = Log2(event, [kind |-> "delay", ms |-> ErrorDelayMs])
CatchBlock(error, event) ==
    /\ pc' = "delay1000"
    /\ attempts' = attempts
    /\ trace' = Log2(event, [kind |-> "delay", ms |-> ErrorDelayMs])

\* lines 336-337 and 379-380: test the budget; enter the body or give up
WhileTest ==
    /\ op = "grind" /\ pc = "while"
    /\ IF LoopGuard(attempts, maxAttempts)
       THEN /\ attempts' = attempts + 1
            /\ pc' = "build"
            /\ UNCHANGED result
       ELSE /\ result' = [kind |-> "returned", txData |-> txData, signature |-> Null]
            /\ pc' = "done"
            /\ UNCHANGED attempts
    /\ UNCHANGED <<args, others, latest, txData, shouldSubmit, transaction, trace,
                   mintPublicKey, calls>>

\* a builder threw: the builder's own catch rethrows (140-143, 277-280); the
\* grind loop catches it (372), the one-shot caller receives it
BuildThrew(error) ==
    LET event == [kind |-> "threw", attempt |-> attempts, error |-> error]
    IN  /\ transaction' = Undefined
        /\ IF op = "grind"
           THEN /\ CatchBlock(error, event)
                /\ UNCHANGED <<txData, shouldSubmit, result>>
           ELSE /\ pc' = "done"
                /\ result' = [kind |-> "thrown", error |-> error]
                /\ trace' = Log(event)
                /\ UNCHANGED <<attempts, txData, shouldSubmit>>

\* a builder returned td: lines 342-365 of the loop body up to the next await,
\* or the one-shot caller moving on to checkSignatureAndSubmit (example.ts 22-28)
BuildReturned(td) ==
    LET built == [kind |-> "built", attempt |-> attempts, txData |-> td]
    IN  /\ transaction' = Undefined
        /\ txData' = td
        /\ UNCHANGED <<attempts, result>>
        /\ IF op = "grind"
           THEN /\ shouldSubmit' = ShouldSubmit(td)
                /\ IF shouldSubmit'
                   THEN /\ pc' = "sendRawTransaction"
                        /\ trace' = Append(Log2(built,
                               [kind |-> "eval", attempt |-> attempts,
                                signature |-> td.signature,
                                verdict |-> logicFunction(td.signature)]),
                               [kind |-> "send", attempt |-> attempts,
                                bytes |-> td.transaction,
                                network |-> connection.endpoint])
                   ELSE /\ pc' = "delay10"
                        /\ trace' = Append(Log2(built,
                               [kind |-> "eval", attempt |-> attempts,
                                signature |-> td.signature,
                                verdict |-> logicFunction(td.signature)]),
                               [kind |-> "delay", ms |-> ShortDelayMs])
           ELSE /\ pc' = "checkSignatureAndSubmit"
                /\ trace' = Log(built)
                /\ UNCHANGED shouldSubmit

\* ---------------------------------------------------------------- builders
\* getAssociatedTokenAddress(mint, owner): a pure derivation
AssociatedTokenAddress(mint, owner) == [ata |-> <<mint, owner>>]

\* createAssociatedTokenAccountInstruction(payer, ata, owner, mint)
CreateAccountInstruction(payer, ata, owner, mint) ==
    [program |-> "associated-token", kind |-> "create", payer |-> payer,
     account |-> ata, owner |-> owner, mint |-> mint]

\* createTransferInstruction(source, destination, owner, amount)
TokenTransferInstruction(source, destination, owner, amount) ==
    [program |-> "token", kind |-> "transfer", from |-> source, to |-> destination,
     owner |-> owner, amount |-> amount]

\* new Transaction(): no instruction, no blockhash, no fee payer, unsigned
NewTransaction ==
    [instructions |-> <<>>, recentBlockhash |-> 0, feePayer |-> "", signature |-> Null]

\* lines 229-259: the instruction list of a token transfer: the create instruction,
\* when the recipient has no holding account, goes before the transfer
TokenInstructions_transferFirst(exists, mint) ==
    LET senderTokenAccount == AssociatedTokenAddress(mint, Wallet.keypair.publicKey)
        recipientTokenAccount == AssociatedTokenAddress(mint, recipientAddress)
        create == CreateAccountInstruction(Wallet.keypair.publicKey,
                      recipientTokenAccount, recipientAddress, mint)
        transfer == TokenTransferInstruction(senderTokenAccount,
                      recipientTokenAccount, Wallet.keypair.publicKey, Lamports)
    IN  IF exists THEN <<transfer>> ELSE <<transfer, create>>
TokenInstructions(exists, mint) ==
    LET senderTokenAccount == AssociatedTokenAddress(mint, Wallet.keypair.publicKey)
        recipientTokenAccount == AssociatedTokenAddress(mint, recipientAddress)
        create == CreateAccountInstruction(Wallet.keypair.publicKey,
                      recipientTokenAccount, recipientAddress, mint)
        transfer == TokenTransferInstruction(senderTokenAccount,
                      recipientTokenAccount, Wallet.keypair.publicKey, Lamports)
    IN  IF exists THEN <<transfer>> ELSE <<create, transfer>>

\* createAndSignTransaction lines 112-125 / createAndSignTokenTransaction lines
\* 210-219: everything before the builder's first await
BuildBegin ==
    /\ pc = "build"
    /\ UNCHANGED <<args, others, latest>>
    /\ IF isToken
       THEN IF ~IsWellFormedAddress(recipientAddress)
            THEN /\ BuildThrew("InvalidAddress")
                 /\ mintPublicKey' = PublicKey(getUsdcMint)
                 /\ calls' = Call([call |-> "getUsdcMint", attempt |-> attempts,
                                   network |-> network])
            ELSE /\ mintPublicKey' = PublicKey(getUsdcMint)
                 /\ calls' = Call([call |-> "getUsdcMint", attempt |-> attempts,
                                   network |-> network])
                 /\ transaction' = Undefined
                 /\ pc' = "getAssociatedTokenAddress"
                 /\ UNCHANGED <<attempts, txData, shouldSubmit, trace, result>>
       ELSE IF ~IsWellFormedAddress(recipientAddress)
            THEN /\ BuildThrew("InvalidAddress")
                 /\ UNCHANGED <<mintPublicKey, calls>>
            ELSE /\ transaction' =
                       [NewTransaction EXCEPT !.instructions =
                           <<TransferInstruction(Wallet.keypair.publicKey,
                                                 recipientAddress, Lamports)>>]
                 /\ calls' = Call([call |-> "getLatestBlockhash", attempt |-> attempts,
                                   network |-> connection.endpoint])
                 /\ pc' = "getLatestBlockhash"
                 /\ UNCHANGED <<mintPublicKey, attempts, txData, shouldSubmit, trace,
                                result>>

\* lines 219-233: the two holding addresses are derived (each an await), the
\* Transaction is created and getAccountInfo is called on the current connection
DeriveTokenAccounts ==
    /\ pc = "getAssociatedTokenAddress"
    /\ transaction' = NewTransaction
    /\ calls' = Call([call |-> "getAccountInfo", attempt |-> attempts,
                      network |-> connection.endpoint])
    /\ pc' = "getAccountInfo"
    /\ UNCHANGED <<args, others, latest, attempts, txData, shouldSubmit, trace, result,
                   mintPublicKey>>

\* lines 233-262: the recipient's holding account exists or not; the instructions
\* are added and getLatestBlockhash is called on the current connection
GetAccountInfoReturns ==
    /\ pc = "getAccountInfo"
    /\ \E exists \in BOOLEAN :
        /\ transaction' = [transaction EXCEPT !.instructions =
                               TokenInstructions(exists, mintPublicKey)]
        /\ calls' = Append(Call([call |-> "accountInfo", attempt |-> attempts,
                                 exists |-> exists]),
                           [call |-> "getLatestBlockhash", attempt |-> attempts,
                            network |-> connection.endpoint])
    /\ pc' = "getLatestBlockhash"
    /\ UNCHANGED <<args, others, latest, attempts, txData, shouldSubmit, trace, result,
                   mintPublicKey>>

\* line 233: the lookup fails
GetAccountInfoFails ==
    /\ pc = "getAccountInfo"
    /\ MayFail
    /\ \E error \in GatewayErrors : BuildThrew(error)
    /\ UNCHANGED <<args, others, latest, mintPublicKey, calls>>

\* lines 125-139 / 262-276: the gateway answers with its current blockhash, which
\* may have advanced since the last call; the builder signs and returns
GetLatestBlockhashReturns ==
    /\ pc = "getLatestBlockhash"
    /\ \E blockhash \in latest..MaxBlockhash :
        /\ latest' = blockhash
        /\ calls' = Call([call |-> "blockhash", attempt |-> attempts,
                          value |-> blockhash])
        /\ BuildReturned(SignAndSerialize(transaction, blockhash))
    /\ UNCHANGED <<args, others, mintPublicKey>>

\* line 125 / 262: the fetch fails
GetLatestBlockhashFails ==
    /\ pc = "getLatestBlockhash"
    /\ MayFail
    /\ \E error \in GatewayErrors : BuildThrew(error)
    /\ UNCHANGED <<args, others, latest, mintPublicKey, calls>>

\* -------------------------------------------------- checkSignatureAndSubmit
\* src/src/index.ts lines 152-163: no predicate parameter, the transaction is sent
checkSignatureAndSubmit ==
    /\ op = "oneshot" /\ client = "index" /\ pc = "checkSignatureAndSubmit"
    /\ pc' = "sendRawTransaction"
    /\ trace' = Log([kind |-> "send", attempt |-> attempts,
                      bytes |-> txData.transaction, network |-> connection.endpoint])
    /\ UNCHANGED <<args, others, latest, attempts, txData, shouldSubmit, transaction, result,
                   mintPublicKey, calls>>

\* part_000 lines 135-154: the earlier class applies logicFunction first
checkSignatureAndSubmit_part_000 ==
    /\ op = "oneshot" /\ client = "part_000" /\ pc = "checkSignatureAndSubmit"
    /\ shouldSubmit' = logicFunction(txData.signature)
    /\ IF shouldSubmit'
       THEN /\ pc' = "sendRawTransaction"
            /\ trace' = Log2([kind |-> "eval", attempt |-> attempts,
                              signature |-> txData.signature, verdict |-> TRUE],
                             [kind |-> "send", attempt |-> attempts,
                              bytes |-> txData.transaction,
                              network |-> connection.endpoint])
            /\ UNCHANGED result
       ELSE /\ pc' = "done"
            /\ trace' = Log([kind |-> "eval", attempt |-> attempts,
                             signature |-> txData.signature, verdict |-> FALSE])
            /\ result' = [kind |-> "returned", value |-> Null]
    /\ UNCHANGED <<args, others, latest, attempts, txData, transaction, mintPublicKey, calls>>

\* --------------------------------------------------------- sendRawTransaction
\* lines 356-361 (grind) / 161-166 (one-shot): the broadcast returns a signature
SendRawTransactionReturns ==
    /\ pc = "sendRawTransaction"
    /\ LET signature == BroadcastReply(txData.transaction)
       IN  /\ trace' = Log([kind |-> "sent", attempt |-> attempts, reply |-> signature])
           /\ result' = IF op = "grind"
                        THEN [kind |-> "returned", txData |-> txData,
                              signature |-> signature]
                        ELSE [kind |-> "returned", value |-> signature]
    /\ pc' = "done"
    /\ UNCHANGED <<args, others, latest, attempts, txData, shouldSubmit, transaction,
                   mintPublicKey, calls>>

\* the broadcast fails: the grind loop's catch (372-376) takes it and the loop goes
\* on; checkSignatureAndSubmit rethrows it (168-171)
SendRawTransactionFails ==
    /\ pc = "sendRawTransaction"
    /\ MayFail
    /\ \E error \in BroadcastErrors :
        LET event == [kind |-> "sendFailed", attempt |-> attempts, error |-> error]
        IN  IF op = "grind"
            THEN /\ CatchBlock(error, event)
                 /\ UNCHANGED result
            ELSE /\ pc' = "done"
                 /\ result' = [kind |-> "thrown", error |-> error]
                 /\ trace' = Log(event)
                 /\ UNCHANGED attempts
    /\ UNCHANGED <<args, others, latest, txData, shouldSubmit, transaction,
                   mintPublicKey, calls>>

\* ------------------------------------------------------------------- delays
\* line 368: attempts counts every attempt so far, rejected or failed
NeedsLongDelay_rejections(a) == Count("eval") % LongDelayEvery = 0
NeedsLongDelay(a) == a % LongDelayEvery = 0

\* lines 365-371: the 10ms timer fires; every 10th attempt the 500ms one follows
ShortDelayElapses ==
    /\ op = "grind" /\ pc = "delay10"
    /\ IF NeedsLongDelay(attempts)
       THEN /\ pc' = "delay500"
            /\ trace' = Log([kind |-> "delay", ms |-> LongDelayMs])
       ELSE /\ pc' = "while"
            /\ UNCHANGED trace
    /\ UNCHANGED <<args, others, latest, attempts, txData, shouldSubmit, transaction, result,
                   mintPublicKey, calls>>

\* line 370: the 500ms timer fires
LongDelayElapses ==
    /\ op = "grind" /\ pc = "delay500"
    /\ pc' = "while"
    /\ UNCHANGED <<args, others, latest, attempts, txData, shouldSubmit, transaction, trace,
                   result, mintPublicKey, calls>>

\* line 375: the 1s timer fires
ErrorDelayElapses ==
    /\ op = "grind" /\ pc = "delay1000"
    /\ pc' = "while"
    /\ UNCHANGED <<args, others, latest, attempts, txData, shouldSubmit, transaction, trace,
                   result, mintPublicKey, calls>>

\* ----------------------------------------------------- constructor, setNetwork
\* the operation is suspended at an await, or the caller is between two calls
Suspended ==
    \/ pc \in {"getAssociatedTokenAddress", "getAccountInfo", "getLatestBlockhash",
               "sendRawTransaction", "delay10", "delay500", "delay1000",
               "balanceTokenAddress", "getTokenAccountBalance"}
    \/ op = "oneshot" /\ pc \in {"build", "checkSignatureAndSubmit"}
    \/ op = "balance" /\ pc = "getTokenBalance"

\* lines 66-70: both fields are assigned in one synchronous call
setNetwork_keepsConnection(n) ==
    /\ network' = n
    /\ connection' = connection
    /\ calls' = Call([call |-> "setNetwork", network |-> n])
setNetwork(n) ==
    /\ network' = n
    /\ connection' = Connection(n)
    /\ calls' = Call([call |-> "setNetwork", network |-> n])

\* the caller switches the network of the client an operation is running on; the
\* switches explored are those of runs whose predicate accepts every signature
\* and, in a grind run, those made during its last attempt before any failure
SetNetwork ==
    /\ Suspended
    /\ op \in {"grind", "oneshot"} => logicAccepts = Digests
    /\ op = "grind" => attempts = maxAttempts /\ Count("threw") + Count("sendFailed") = 0
    /\ ~cancelRequested
    /\ Cardinality(Calls("setNetwork")) < MaxSwitches
    /\ \E n \in NetworkType \ {network} : setNetwork(n)
    /\ UNCHANGED <<args, latest, pc, attempts, txData, shouldSubmit, transaction, trace,
                   result, mintPublicKey, cancelRequested, created, loaded>>

\* the caller of a running createUntilLogicMatches wants it cancelled: lines 322-329
\* take no cancellation token and the loop (336-377) tests only the budget; the
\* cancellations explored are those of runs whose predicate rejects every signature
RequestCancel ==
    /\ op = "grind" /\ Suspended
    /\ logicAccepts = {} /\ maxAttempts <= MaxBudget
    /\ ~cancelRequested
    /\ Calls("setNetwork") = {}
    /\ cancelRequested' = TRUE
    /\ calls' = Call([call |-> "cancel", attempt |-> attempts])
    /\ UNCHANGED <<args, latest, pc, attempts, txData, shouldSubmit, transaction, trace,
                   result, mintPublicKey, network, connection, created, loaded>>

\* ---------------------------------------------------------- getTokenBalance
\* Number(amount) / 10^USDC_DECIMALS, as a fraction
TokenAmounts == {0, 1500000}
UiAmount(amount) == [num |-> amount, den |-> 10 ^ USDC_DECIMALS]
Zero == [num |-> 0, den |-> 1]

\* lines 302-305: the inner catch returns 0 for every failure of the balance fetch
BalanceCatch_rethrows(error) == [kind |-> "thrown", error |-> error]
BalanceCatch(error) == [kind |-> "returned", value |-> Zero]

\* lines 289-297: validate the address, resolve the mint, derive the holding account
GetTokenBalanceBegin ==
    /\ op = "balance" /\ pc = "getTokenBalance"
    /\ IF ~IsWellFormedAddress(recipientAddress)
       THEN /\ pc' = "done"
            /\ result' = [kind |-> "thrown", error |-> "InvalidAddress"]
            /\ UNCHANGED <<mintPublicKey, calls>>
       ELSE /\ mintPublicKey' = PublicKey(getUsdcMint)
            /\ calls' = Call([call |-> "getUsdcMint", attempt |-> attempts,
                              network |-> network])
            /\ pc' = "balanceTokenAddress"
            /\ UNCHANGED result
    /\ UNCHANGED <<args, others, latest, attempts, txData, shouldSubmit, transaction, trace>>

\* lines 294-300: the holding address is derived; the balance is asked of the
\* current connection
GetTokenBalanceFetch ==
    /\ op = "balance" /\ pc = "balanceTokenAddress"
    /\ calls' = Call([call |-> "getTokenAccountBalance", attempt |-> attempts,
                      network |-> connection.endpoint,
                      account |-> AssociatedTokenAddress(mintPublicKey, recipientAddress)])
    /\ pc' = "getTokenAccountBalance"
    /\ UNCHANGED <<args, others, latest, attempts, txData, shouldSubmit, transaction, trace,
                   result, mintPublicKey>>

\* lines 300-301: the gateway reports the holding account's amount
GetTokenAccountBalanceReturns ==
    /\ op = "balance" /\ pc = "getTokenAccountBalance"
    /\ \E amount \in TokenAmounts :
        /\ trace' = Log([kind |-> "balance", amount |-> amount])
        /\ result' = [kind |-> "returned", value |-> UiAmount(amount)]
    /\ pc' = "done"
    /\ UNCHANGED <<args, others, latest, attempts, txData, shouldSubmit, transaction,
                   mintPublicKey, calls>>

\* lines 302-305: the fetch fails, with AccountNotFound or anything else
GetTokenAccountBalanceFails ==
    /\ op = "balance" /\ pc = "getTokenAccountBalance"
    /\ \E error \in {"AccountNotFound"} \cup GatewayErrors :
        /\ trace' = Log([kind |-> "balanceFailed", error |-> error])
        /\ result' = BalanceCatch(error)
    /\ pc' = "done"
    /\ UNCHANGED <<args, others, latest, attempts, txData, shouldSubmit, transaction,
                   mintPublicKey, calls>>

\* ------------------------------------------------------------------- wallets
\* lines 76-83
createWallet ==
    /\ op = "wallet" /\ pc = "createWallet"
    /\ LET wallet == KeypairOf(seed)
       IN  created' = [publicKey |-> bs58_encode(wallet.publicKey),
                       secretKey |-> bs58_encode(wallet.secretKey),
                       keypair |-> wallet]
    /\ pc' = "loadWalletFromSecretKey"
    /\ UNCHANGED <<args, latest, attempts, txData, shouldSubmit, transaction, trace, result,
                   network, connection, mintPublicKey, calls, cancelRequested, loaded>>

\* lines 90-98, called with the secretKey text createWallet returned
loadWalletFromSecretKey ==
    /\ op = "wallet" /\ pc = "loadWalletFromSecretKey"
    /\ LET secretKey == created.secretKey
           decodedKey == bs58_decode(secretKey)
       IN  IF ValidSecretKey(decodedKey)
           THEN LET wallet == [publicKey |-> SubSeq(decodedKey, KeyLen + 1, 2 * KeyLen),
                               secretKey |-> decodedKey]
                IN  /\ loaded' = [publicKey |-> bs58_encode(wallet.publicKey),
                                  secretKey |-> secretKey,
                                  keypair |-> wallet]
                    /\ result' = [kind |-> "returned"]
           ELSE /\ loaded' = loaded
                /\ result' = [kind |-> "thrown", error |-> "InvalidSecretKey"]
    /\ pc' = "done"
    /\ UNCHANGED <<args, latest, attempts, txData, shouldSubmit, transaction, trace,
                   network, connection, mintPublicKey, calls, cancelRequested, created>>

\* --------------------------------------------------------------------- Next
Next ==
    \/ WhileTest
    \/ BuildBegin
    \/ DeriveTokenAccounts
    \/ GetAccountInfoReturns
    \/ GetAccountInfoFails
    \/ GetLatestBlockhashReturns
    \/ GetLatestBlockhashFails
    \/ checkSignatureAndSubmit
    \/ checkSignatureAndSubmit_part_000
    \/ SendRawTransactionReturns
    \/ SendRawTransactionFails
    \/ ShortDelayElapses
    \/ LongDelayElapses
    \/ ErrorDelayElapses
    \/ SetNetwork
    \/ RequestCancel
    \/ GetTokenBalanceBegin
    \/ GetTokenBalanceFetch
    \/ GetTokenAccountBalanceReturns
    \/ GetTokenAccountBalanceFails
    \/ createWallet
    \/ loadWalletFromSecretKey

Spec == Init /\ [][Next]_vars

\* the steps the event loop owes a suspended operation: the continuation after an
\* await, a gateway call's answer or failure, a timer
Scheduled ==
    \/ WhileTest
    \/ BuildBegin
    \/ DeriveTokenAccounts
    \/ GetAccountInfoReturns
    \/ GetAccountInfoFails
    \/ GetLatestBlockhashReturns
    \/ GetLatestBlockhashFails
    \/ checkSignatureAndSubmit
    \/ checkSignatureAndSubmit_part_000
    \/ SendRawTransactionReturns
    \/ SendRawTransactionFails
    \/ ShortDelayElapses
    \/ LongDelayElapses
    \/ ErrorDelayElapses
    \/ GetTokenBalanceBegin
    \/ GetTokenBalanceFetch
    \/ GetTokenAccountBalanceReturns
    \/ GetTokenAccountBalanceFails

\* every gateway call returns or fails and every timer fires
FairSpec == Spec /\ WF_vars(Scheduled)

\* =================================================================== claims
Grind == op = "grind"
Finished == pc = "done"
Builds == Count("built") + Count("threw")
Building == pc \in {"build", "getAssociatedTokenAddress", "getAccountInfo",
                    "getLatestBlockhash"}
Exhausted == Finished /\ result.kind = "returned" /\ result.signature = Null
LastOf(kind) == CHOOSE i \in Events(kind) : \A j \in Events(kind) : j <= i
FirstAccepted ==
    /\ Len(trace) >= 2
    /\ trace[1].kind = "built" /\ trace[1].attempt = 1
    /\ trace[2].kind = "eval" /\ trace[2].verdict

\* C1: in one createUntilLogicMatches invocation sendRawTransaction is invoked
\* at most once, whatever the budget, the verdicts and the gateway failures.
C1_AtMostOneBroadcast == Grind => Count("send") <= 1

\* C2: a failed broadcast is the outcome of the invocation: the failure is thrown
\* to the caller and nothing (no delay, build or predicate call) follows it.
C2_BroadcastFailureIsOutcome ==
    Grind => \A i \in Events("sendFailed") :
                /\ i = Len(trace)
                /\ Finished
                /\ result = [kind |-> "thrown", error |-> trace[i].error]

\* C3: checkSignatureAndSubmit broadcasts iff the predicate accepts
\* txData.signature: once on acceptance, never on rejection, which returns null.
C3_SubmitIffAccepted ==
    (op = "oneshot" /\ Count("built") = 1) =>
        LET accepted == logicFunction(txData.signature)
        IN  /\ Count("send") >= 1 => accepted
            /\ Finished =>
                  /\ Count("send") = (IF accepted THEN 1 ELSE 0)
                  /\ ~accepted => result = [kind |-> "returned", value |-> Null]
                  /\ Count("sent") = 1 =>
                        result = [kind |-> "returned",
                                  value |-> BroadcastReply(txData.transaction)]

\* C4: every broadcast of the grind loop directly follows a true verdict of the
\* predicate in the same iteration, on the signature of the transaction built in
\* that iteration, and sends that transaction's serialized bytes.
C4_BroadcastOnlyFreshAccepted ==
    Grind =>
        /\ \A i \in Events("send") :
              /\ i >= 3
              /\ trace[i - 1].kind = "eval"
              /\ trace[i - 1].attempt = trace[i].attempt
              /\ trace[i - 1].verdict
              /\ trace[i - 2].kind = "built"
              /\ trace[i - 2].attempt = trace[i].attempt
              /\ trace[i - 1].signature = trace[i - 2].txData.signature
              /\ trace[i].bytes = trace[i - 2].txData.transaction
        /\ pc = "sendRawTransaction" =>
              /\ trace[Len(trace)].kind = "send"
              /\ trace[Len(trace)].attempt = attempts
              /\ trace[Len(trace)].bytes = txData.transaction

\* C4 witness: a broadcast in the second iteration, whose transaction differs from
\* the one built (and rejected) in the first
C4_Witness ==
    /\ Grind /\ Finished /\ Count("sent") = 1
    /\ \E i \in Events("send"), j \in Events("built") :
          /\ trace[i].attempt = 2 /\ trace[j].attempt = 1
          /\ trace[j].txData.transaction # trace[i].bytes

\* C5 as stated: a failed build does not consume the budget, so an invocation on a
\* well-formed recipient that ends exhausted without any broadcast has had
\* maxAttempts predicate rejections.
C5_FailedBuildKeepsBudget ==
    (Grind /\ Exhausted /\ IsWellFormedAddress(recipientAddress) /\ Count("send") = 0)
        => Count("eval") = maxAttempts

\* C5 amended: a failed build is caught and followed by the 1s delay, and it does
\* consume the budget: attempts counts every build started, failed or not, never
\* exceeds maxAttempts, and at exhaustion evaluations + failed builds = maxAttempts.
C5_FailedBuildConsumesAttempt ==
    Grind =>
        /\ attempts = Builds + (IF Building THEN 1 ELSE 0)
        /\ attempts <= maxAttempts
        /\ \A i \in Events("threw") :
              /\ i < Len(trace)
              /\ trace[i + 1] = [kind |-> "delay", ms |-> ErrorDelayMs]
        /\ Exhausted => Count("eval") + Count("threw") = maxAttempts

\* C5 witness: an exhausted run on a well-formed recipient with a failed build and
\* a rejection
C5_Witness ==
    /\ Grind /\ Exhausted /\ IsWellFormedAddress(recipientAddress)
    /\ Count("threw") >= 1 /\ Count("eval") >= 1 /\ Count("send") = 0

\* C6: createUntilLogicMatches with a malformed recipient fails with InvalidAddress
\* on the first attempt: one build, no delay, no retry, no normal result.
C6_InvalidAddressSurfaces ==
    (Grind /\ ~IsWellFormedAddress(recipientAddress) /\ Count("threw") >= 1) =>
        /\ Finished
        /\ result = [kind |-> "thrown", error |-> "InvalidAddress"]
        /\ Builds = 1
        /\ Count("delay") = 0

\* C7: an exhausted invocation returns a defined txData, the transaction of the last
\* build, for every budget (0 included) and every pattern of build failures.
C7_ExhaustedReturnsLastBuild ==
    (Grind /\ Exhausted) =>
        /\ result.txData # Undefined
        /\ Events("built") # {}
        /\ result.txData = trace[LastOf("built")].txData

\* C8: with a predicate that always returns false the loop makes exactly
\* maxAttempts build attempts, never broadcasts and returns signature null.
C8_AlwaysFalseRunsWholeBudget ==
    (Grind /\ logicAccepts = {}) =>
        /\ Count("send") = 0
        /\ Builds <= maxAttempts
        /\ Finished => /\ Builds = maxAttempts
                       /\ result.kind = "returned"
                       /\ result.signature = Null

\* C8 witness: such a run with a budget of 2 or more, every build evaluated
C8_Witness ==
    /\ Grind /\ logicAccepts = {} /\ Finished
    /\ maxAttempts >= 2 /\ Count("eval") = maxAttempts

\* C9: when the predicate accepts on the first attempt there is exactly one build,
\* exactly one broadcast call and no delay, and the returned signature is the
\* broadcast's return value.
C9_FirstAcceptOneBuildOneBroadcast ==
    (Grind /\ FirstAccepted) =>
        /\ Builds = 1
        /\ Count("send") = 1
        /\ Count("delay") = 0
        /\ Finished => /\ Count("sent") = 1
                       /\ result.kind = "returned"
                       /\ result.signature = trace[LastOf("sent")].reply

\* C10: the grind loop always terminates, a gateway error never ends it with a
\* thrown failure, and a run in which no broadcast succeeded ends by exhaustion,
\* after maxAttempts attempts.
C10_TerminatesOnlyByExhaustion ==
    /\ <>(Grind => Finished)
    /\ []((Grind /\ Finished) =>
            /\ result.kind = "returned"
            /\ Count("sent") = 0 =>
                  /\ result.signature = Null
                  /\ attempts = maxAttempts
                  /\ Builds = maxAttempts)

\* C10 witness: a finished run in which the gateway failed on every attempt
C10_Witness ==
    /\ Grind /\ Finished /\ maxAttempts >= 2
    /\ IsWellFormedAddress(recipientAddress)
    /\ Count("threw") + Count("sendFailed") = maxAttempts

\* a transaction every build step was applied to: instructions, blockhash, fee
\* payer, and the sender's signature over exactly that message
Complete(raw) ==
    /\ raw.instructions # <<>>
    /\ raw.recentBlockhash \in Blockhashes
    /\ raw.feePayer = Wallet.keypair.publicKey
    /\ raw.signature = [signer |-> Wallet.keypair.publicKey, message |-> Message(raw)]

\* C11: every byte string handed to sendRawTransaction, by the grind loop or the
\* one-shot path, is the serialization of a transaction an earlier build completed
\* (instructions, blockhash, fee payer, signature); a failed build leaves no
\* TransactionData behind: txData is always that of the last completed build.
C11_OnlyCompletedBuildsBroadcast ==
    /\ \A i \in Events("send") :
          \E j \in Events("built") :
              LET raw == trace[j].txData.rawTransaction
              IN  /\ j < i
                  /\ Complete(raw)
                  /\ trace[i].bytes = trace[j].txData.transaction
                  /\ trace[i].bytes.wire = <<raw.signature, Message(raw)>>
    /\ txData = IF Events("built") = {} THEN Undefined
                ELSE trace[LastOf("built")].txData
    /\ pc = "sendRawTransaction" => transaction = Undefined

\* C11 witness: a grind run that broadcast after an earlier build of it had failed
C11_Witness ==
    /\ Grind /\ Count("sent") = 1
    /\ \E i \in Events("threw"), j \in Events("send") : i < j

\* what the gateway answered to the recipient-account lookup of an attempt
AccountExists(a) ==
    LET k == CHOOSE k \in Calls("accountInfo") : calls[k].attempt = a
    IN  calls[k].exists

\* C12: a completed token build carries two instructions, the creation of the
\* recipient's holding account paid by the sender and then the transfer, when the
\* lookup found no account, and the transfer alone when the account exists; the
\* transfer is always last, so a creation never follows it.
C12_CreateBeforeTransfer ==
    isToken =>
        \A j \in Events("built") :
            LET instructions == trace[j].txData.rawTransaction.instructions
                last == instructions[Len(instructions)]
            IN  /\ \E k \in Calls("accountInfo") : calls[k].attempt = trace[j].attempt
                /\ Len(instructions) = (IF AccountExists(trace[j].attempt) THEN 1 ELSE 2)
                /\ last.kind = "transfer" /\ last.program = "token"
                /\ Len(instructions) = 2 =>
                      /\ instructions[1].kind = "create"
                      /\ instructions[1].payer = Wallet.keypair.publicKey
                      /\ instructions[1].account = last.to

\* C12 witness: a grind run built one token transfer with the creation and one
\* without it
C12_Witness ==
    /\ Grind /\ isToken
    /\ \E i, j \in Events("built") :
          /\ Len(trace[i].txData.rawTransaction.instructions) = 2
          /\ Len(trace[j].txData.rawTransaction.instructions) = 1

\* the failure the balance fetch of a finished getTokenBalance met, if any
BalanceFailedWith(error) ==
    /\ op = "balance" /\ Finished
    /\ \E i \in Events("balanceFailed") : trace[i].error = error

\* C13: getTokenBalance swallows no failure of the balance fetch other than
\* AccountNotFound: a fetch that failed with NetworkUnavailable is thrown to the
\* caller and no balance is returned.
C13_GatewayErrorPropagates ==
    \A error \in GatewayErrors :
        BalanceFailedWith(error) => result = [kind |-> "thrown", error |-> error]

\* C14: getTokenBalance of a well-formed address whose holding account does not
\* exist returns 0 and throws nothing.
C14_MissingAccountIsZero ==
    BalanceFailedWith("AccountNotFound") =>
        /\ result.kind = "returned"
        /\ result.value.num = 0

\* C14 witness: a finished getTokenBalance whose fetch met AccountNotFound
C14_Witness ==
    /\ BalanceFailedWith("AccountNotFound")
    /\ IsWellFormedAddress(recipientAddress)
    /\ Calls("getTokenAccountBalance") # {}

\* the client calls of one kind made in an attempt
CallsOf(call, a) == {k \in Calls(call) : calls[k].attempt = a}

\* C15: every build asks the gateway for the blockhash exactly once, when the
\* instructions are in place (in a token build after the account lookup) and
\* nothing is signed yet, and the transaction it returns carries, and is signed
\* over, the blockhash answered in that same attempt, never an earlier one.
C15_FreshBlockhashEveryBuild ==
    op \in {"grind", "oneshot"} =>
        /\ \A a \in 0..attempts :
              /\ Cardinality(CallsOf("getLatestBlockhash", a)) <= 1
              /\ \A c \in CallsOf("getLatestBlockhash", a) :
                    \A k \in CallsOf("accountInfo", a) : k < c
        /\ \A j \in Events("built") :
              LET a == trace[j].attempt
                  raw == trace[j].txData.rawTransaction
              IN  /\ Cardinality(CallsOf("getLatestBlockhash", a)) = 1
                  /\ Cardinality(CallsOf("blockhash", a)) = 1
                  /\ \A k \in CallsOf("blockhash", a) :
                        /\ \E c \in CallsOf("getLatestBlockhash", a) : c < k
                        /\ raw.recentBlockhash = calls[k].value
                        /\ raw.signature.message.recentBlockhash = calls[k].value
        /\ pc = "getLatestBlockhash" =>
              /\ transaction.instructions # <<>>
              /\ transaction.signature = Null
              /\ CallsOf("getLatestBlockhash", attempts) # {}
              /\ CallsOf("blockhash", attempts) = {}

\* C15 witness: two builds of one grind run, the later signed over a newer blockhash
C15_Witness ==
    /\ Grind
    /\ \E i, j \in Events("built") :
          /\ trace[i].attempt < trace[j].attempt
          /\ trace[i].txData.rawTransaction.recentBlockhash
                < trace[j].txData.rawTransaction.recentBlockhash

Delay(ms) == [kind |-> "delay", ms |-> ms]
Rejections == {i \in Events("eval") : ~trace[i].verdict}
Unsuccessful == Rejections \cup Events("threw") \cup Events("sendFailed")

\* the loop is past the delays that follow event i of the trace
DelaysOver(i) ==
    \/ attempts > trace[i].attempt
    \/ pc \in {"while", "done"}

\* C16 as stated: every rejection is followed by the 10ms delay, every failed build
\* by the 1s delay, and the 500ms delay is inserted after every 10th unsuccessful
\* attempt of the invocation, whether it and the earlier ones were rejections or
\* failures (checked on well-formed recipients).
C16_LongDelayEveryTenthUnsuccessful ==
    (Grind /\ IsWellFormedAddress(recipientAddress)) =>
        /\ \A i \in Rejections : i < Len(trace) /\ trace[i + 1] = Delay(ShortDelayMs)
        /\ \A i \in Events("threw") : i < Len(trace) /\ trace[i + 1] = Delay(ErrorDelayMs)
        /\ \A i \in Unsuccessful :
              (trace[i].attempt % LongDelayEvery = 0 /\ DelaysOver(i)) =>
                  \E j \in Events("delay") : j > i /\ trace[j] = Delay(LongDelayMs)

\* C16 amended: every rejection is followed by the 10ms delay and every failed build
\* by the 1s delay; the 500ms delay follows the 10ms delay of a rejected attempt
\* exactly when that attempt's number, counting every earlier attempt, rejected or
\* failed, is a multiple of 10; a failed attempt is never followed by it.
C16_LongDelayAfterTenthRejected ==
    Grind =>
        /\ \A i \in Rejections :
              /\ i < Len(trace) /\ trace[i + 1] = Delay(ShortDelayMs)
              /\ DelaysOver(i) =>
                    ((i + 2 <= Len(trace) /\ trace[i + 2] = Delay(LongDelayMs))
                        <=> trace[i].attempt % LongDelayEvery = 0)
        /\ \A i \in Events("threw") :
              /\ i < Len(trace) /\ trace[i + 1] = Delay(ErrorDelayMs)
              /\ i + 2 <= Len(trace) => trace[i + 2] # Delay(LongDelayMs)
        /\ \A j \in Events("delay") :
              trace[j] = Delay(LongDelayMs) =>
                  /\ j >= 3
                  /\ trace[j - 1] = Delay(ShortDelayMs)
                  /\ j - 2 \in Rejections
                  /\ trace[j - 2].attempt % LongDelayEvery = 0

\* C16 witness: the 10th attempt of a run was rejected after an earlier attempt of
\* it had failed, and the 500ms delay was inserted
C16_Witness ==
    /\ Grind /\ Finished /\ IsWellFormedAddress(recipientAddress)
    /\ Count("threw") >= 1
    /\ \E j \in Events("delay") : trace[j] = Delay(LongDelayMs)

\* C17: once the caller has requested cancellation of a running grind, the loop
\* starts no further iteration: no attempt later than the one the request came
\* in is begun, and no gateway call of a later attempt is made.
C17_CancellationStopsBuilds ==
    (Grind /\ IsWellFormedAddress(recipientAddress)) =>
        \A c \in Calls("cancel") :
            /\ attempts <= calls[c].attempt
            /\ \A k \in DOMAIN calls :
                  (k > c /\ calls[k].call \in {"getUsdcMint", "getAccountInfo",
                                               "getLatestBlockhash"})
                      => calls[k].attempt <= calls[c].attempt

\* C18: loading the secret text of a wallet createWallet returned succeeds and
\* yields the same public address, the same raw public and secret key bytes and the
\* same secret text; in each wallet the text decodes to the keypair's secret key.
C18_IdentityRoundTrip ==
    /\ created # Undefined =>
          bs58_decode(created.secretKey) = created.keypair.secretKey
    /\ (op = "wallet" /\ Finished) =>
          /\ result.kind = "returned"
          /\ loaded.publicKey = created.publicKey
          /\ loaded.keypair.publicKey = created.keypair.publicKey
          /\ loaded.keypair.secretKey = created.keypair.secretKey
          /\ loaded.secretKey = created.secretKey
          /\ bs58_decode(loaded.secretKey) = loaded.keypair.secretKey

\* C18 witness: the round trip of a wallet whose secret key begins with a zero byte
C18_Witness ==
    /\ op = "wallet" /\ Finished /\ loaded # Undefined
    /\ created.keypair.secretKey[1] = 0
    /\ Head(created.secretKey) = "1"

\* the network the constructor or the last setNetwork call selected
LastSelected ==
    LET selections == Calls("constructor") \cup Calls("setNetwork")
        last == CHOOSE k \in selections : \A j \in selections : j <= k
    IN  calls[last].network

\* C19: after the constructor and any setNetwork calls the connection's endpoint
\* and the mint getUsdcMint returns are those of the network selected last; the
\* connection of one network is never paired with the selector of another.
C19_ConnectionFollowsNetwork ==
    /\ network = LastSelected
    /\ connection = [endpoint |-> clusterApiUrl(LastSelected), commitment |-> "confirmed"]
    /\ getUsdcMint = USDC_MINT[LastSelected]
    /\ connection.endpoint = clusterApiUrl(network)

\* C19 witness: a setNetwork call selected a network with another endpoint and
\* another mint than the constructor's
C19_Witness ==
    /\ Calls("setNetwork") # {}
    /\ clusterApiUrl(LastSelected) # clusterApiUrl(calls[1].network)
    /\ USDC_MINT[LastSelected] # USDC_MINT[calls[1].network]

\* the endpoints the builds of the running operation read the mint for or called
BuildNetworks ==
    {clusterApiUrl(calls[k].network) : k \in Calls("getUsdcMint")}
        \cup {calls[k].network : k \in Calls("getAccountInfo") \cup Calls("getLatestBlockhash")}

\* the endpoints the running operation broadcast to
BroadcastNetworks == {trace[i].network : i \in Events("send")}

\* C20: one build, and one grind invocation, uses one network throughout, whatever
\* setNetwork calls are made while it is suspended: the mint, the account lookup and
\* the blockhash of a build, and in a grind run the broadcast too, all belong to
\* the same network.
C20_OneNetworkPerInvocation ==
    /\ op \in {"grind", "oneshot"} => Cardinality(BuildNetworks) <= 1
    /\ Grind => Cardinality(BuildNetworks \cup BroadcastNetworks) <= 1

\* the calls a build makes on the gateway, and their answers
GatewayCalls ==
    Calls("getAccountInfo") \cup Calls("accountInfo")
        \cup Calls("getLatestBlockhash") \cup Calls("blockhash")

\* C21: a build for a malformed recipient, native or token, fails with
\* InvalidAddress before anything else happens: no account lookup, no blockhash
\* fetch, no broadcast, no Transaction signed, and no TransactionData returned.
C21_ValidationBeforeGateway ==
    (op \in {"grind", "oneshot"} /\ recipientAddress = MalformedRecipient) =>
        /\ GatewayCalls = {}
        /\ pc \notin {"getAssociatedTokenAddress", "getAccountInfo",
                      "getLatestBlockhash", "sendRawTransaction"}
        /\ transaction = Undefined
        /\ txData = Undefined
        /\ Count("built") = 0 /\ Count("send") = 0
        /\ \A i \in Events("threw") : trace[i].error = "InvalidAddress"
        /\ Grind => attempts = Count("threw") + (IF pc = "build" THEN 1 ELSE 0)
        /\ (op = "oneshot" /\ Finished) =>
              result = [kind |-> "thrown", error |-> "InvalidAddress"]

\* C21 witness: a token build and, in the same grind run, a second one, both
\* refused for the malformed recipient
C21_Witness ==
    /\ Grind /\ isToken /\ recipientAddress = MalformedRecipient
    /\ Count("threw") = 2
    /\ Cardinality(Calls("getUsdcMint")) = 2

\* what the gateway and the client gave the build of attempt a
BlockhashOf(a) == calls[CHOOSE k \in CallsOf("blockhash", a) : TRUE].value
MintOf(a) == USDC_MINT[calls[CHOOSE k \in CallsOf("getUsdcMint", a) : TRUE].network]

\* the completed builds of attempts a and b got the same blockhash
SameBlockhash(a, b) == BlockhashOf(a) = BlockhashOf(b)

\* ... and, for a token transfer, the same mint and the same lookup answer
SameInputs(a, b) ==
    /\ SameBlockhash(a, b)
    /\ isToken => MintOf(a) = MintOf(b) /\ AccountExists(a) = AccountExists(b)

\* the predicate rejected the signature of the first attempt
FirstRejected == \E i \in Rejections : trace[i].attempt = 1

\* C22 as stated: two builds that got the same blockhash (and, for tokens, the same
\* lookup answer) have the same signature; hence in a grind run whose blockhash
\* never changes a predicate that rejected the first attempt rejects every
\* attempt, nothing is broadcast and the run ends exhausted.
C22_UnchangedBlockhashRejectsAll ==
    Grind =>
        /\ \A i, j \in Events("built") :
              SameInputs(trace[i].attempt, trace[j].attempt) =>
                  trace[i].txData.signature = trace[j].txData.signature
        /\ (FirstRejected /\ \A i \in Events("built") : SameBlockhash(1, trace[i].attempt)) =>
              /\ \A i \in Events("eval") : ~trace[i].verdict
              /\ Count("send") = 0
              /\ Finished => Exhausted

\* C22 amended: two builds that got the same blockhash and, for tokens, the same
\* mint and the same lookup answer have the same signature and the same bytes;
\* hence a predicate that rejected the first attempt rejects every attempt that
\* got the inputs of the first, and a grind run all of whose builds got them
\* broadcasts nothing and ends exhausted.
C22_SameInputsSameSignature ==
    Grind =>
        /\ \A i, j \in Events("built") :
              SameInputs(trace[i].attempt, trace[j].attempt) =>
                  /\ trace[i].txData.signature = trace[j].txData.signature
                  /\ trace[i].txData.transaction = trace[j].txData.transaction
        /\ FirstRejected =>
              \A i \in Events("eval") :
                  SameInputs(1, trace[i].attempt) => ~trace[i].verdict
        /\ (FirstRejected /\ \A i \in Events("built") : SameInputs(1, trace[i].attempt)) =>
              /\ Count("send") = 0
              /\ Finished => Exhausted

\* C22 witness: a token grind run ended exhausted after two builds with the same
\* inputs, both rejected by a predicate that accepts other signatures
C22_Witness ==
    /\ Grind /\ isToken /\ Exhausted /\ logicAccepts # {}
    /\ \E i, j \in Rejections :
          /\ trace[i].attempt = 1 /\ trace[j].attempt = 2
          /\ SameInputs(1, 2)
          /\ trace[i].signature = trace[j].signature

====
